---- MODULE Spec2Model ----
(***************************************************************************)
(* Model of mta_bus_tracker.py: the bus normalizer (parse_arrivals), the   *)
(* train normalizer (get_train_arrivals), main's configuration and poll    *)
(* loop, and the two monitor_arrivals loops.                               *)
(*                                                                         *)
(* Python values are tagged records [t |-> <type>, ...]; an exception      *)
(* raised while evaluating an expression is the value Exc(<class>) and     *)
(* propagates through every operator applied to it.  Time is in whole      *)
(* seconds.                                                                *)
(***************************************************************************)
EXTENDS Integers, Sequences, FiniteSets, TLC

(***************************************************************************)
(* Bounds of the model.                                                    *)
(***************************************************************************)
\* Longest MonitoredStopVisit list of a bus payload.
MaxVisits ==
    2

\* Most entities in one train feed message.
MaxEntities ==
    2

\* The wall-clock reading (epoch seconds) when the program starts.
StartClock ==
    1000

\* A feed handed to a direct call of get_train_arrivals has at most this many
\* stop-time updates.
MaxUpdates ==
    2

\* A sleep begins only within this many seconds of the start.
MaxElapsed ==
    1

(***************************************************************************)
(* Python values.                                                          *)
(***************************************************************************)
None ==
    [t |-> "none"]

PyInt(n) ==
    [t |-> "int", v |-> n]

\* A str that is not an ISO-8601 timestamp: a sequence of tokens.
PyStr(tokens) ==
    [t |-> "str", form |-> "text", v |-> tokens]

\* A str holding an ISO-8601 timestamp: local wall seconds and a zone suffix.
IsoStr(wall, zone) ==
    [t |-> "str", form |-> "iso", wall |-> wall, zone |-> zone]

\* A str holding the decimal digits of the integer n.
NumStr(n) ==
    [t |-> "str", form |-> "num", n |-> n]

PyDict(f) ==
    [t |-> "dict", v |-> f]

PyList(s) ==
    [t |-> "list", v |-> s]

Exc(class) ==
    [t |-> "exc", v |-> class]

EmptyDict ==
    PyDict(<<>>)

IsExc(x) ==
    x.t = "exc"

\* bool(x) as Python evaluates it in `if x:` / `x or y`.
Truthy(x) ==
    CASE x.t = "none" -> FALSE
      [] x.t = "int"  -> x.v # 0
      [] x.t = "str"  -> IF x.form = "text" THEN Len(x.v) > 0 ELSE TRUE
      [] x.t = "dict" -> DOMAIN x.v # {}
      [] x.t = "list" -> Len(x.v) > 0
      [] OTHER        -> TRUE

\* obj.get(key, default): only a dict has .get.
Get(obj, key, default) ==
    IF IsExc(obj) THEN obj
    ELSE IF obj.t # "dict" THEN Exc("AttributeError")
    ELSE IF key \in DOMAIN obj.v THEN obj.v[key]
    ELSE default

\* obj[0]
Index0(obj) ==
    CASE IsExc(obj)     -> obj
      [] obj.t = "list" -> IF Len(obj.v) > 0 THEN obj.v[1] ELSE Exc("IndexError")
      [] obj.t = "str"  -> IF Truthy(obj) THEN PyStr(<<"c">>) ELSE Exc("IndexError")
      [] obj.t = "dict" -> Exc("KeyError")
      [] OTHER          -> Exc("TypeError")

\* The items `for x in obj` yields, or the exception iter(obj) raises.
Iterate(obj) ==
    CASE IsExc(obj)     -> obj
      [] obj.t = "list" -> obj
      [] obj.t = "str"  -> PyList([i \in 1..(IF obj.form = "text" THEN Len(obj.v) ELSE 1) |-> PyStr(<<"c">>)])
      [] obj.t = "dict" -> PyList([i \in 1..Cardinality(DOMAIN obj.v) |-> PyStr(<<"k">>)])
      [] OTHER          -> Exc("TypeError")

\* s.replace(old, new) for the two replacements the program makes.
Replace(s, old, new) ==
    CASE IsExc(s)        -> s
      [] s.t # "str"     -> Exc("AttributeError")
      [] s.form = "iso"  -> IF s.zone = old THEN IsoStr(s.wall, new) ELSE s
      [] s.form = "text" -> PyStr(SelectSeq([i \in 1..Len(s.v) |-> IF s.v[i] = old THEN new ELSE s.v[i]],
                                            LAMBDA tok : tok # ""))
      [] OTHER           -> s

\* int(s) of a str: its value, or ValueError.
py_int(s) ==
    IF s.form = "num" THEN PyInt(s.n) ELSE Exc("ValueError")

\* A variant of Or that never falls back to b.
OrFirst(a, b) ==
    a

\* a or b
Or(a, b) ==
    IF Truthy(a) THEN a ELSE b

Min(a, b) ==
    IF a <= b THEN a ELSE b

\* Seconds east of UTC of a zone suffix.
ZoneOffset(zone) ==
    CASE zone = "-05:00" -> 0 - 18000
      [] OTHER           -> 0

\* datetime.fromisoformat(s): an aware datetime, or ValueError.
fromisoformat(s) ==
    CASE IsExc(s)       -> s
      [] s.t # "str"    -> Exc("TypeError")
      [] s.form # "iso" -> Exc("ValueError")
      [] OTHER          -> [t |-> "datetime", wall |-> s.wall, off |-> ZoneOffset(s.zone)]

\* datetime.now(tz) when the wall clock reads `clk` seconds since the epoch.
datetime_now(clk, off) ==
    [t |-> "datetime", wall |-> clk + off, off |-> off]

\* (a - b).total_seconds() for two aware datetimes.
total_seconds(a, b) ==
    (a.wall - a.off) - (b.wall - b.off)

\* A variant of int_div that rounds toward minus infinity.
int_div_floor(x, d) ==
    x \div d

\* int(x / d) for d > 0: Python's int() truncates toward zero.
int_div(x, d) ==
    IF x >= 0 THEN x \div d ELSE 0 - ((0 - x) \div d)

(***************************************************************************)
(* MTABusTracker.parse_arrivals                                            *)
(***************************************************************************)
\* The exception classes parse_arrivals catches.
ParseCaught ==
    {"KeyError", "IndexError", "TypeError"}

\* A variant of stop_visits that subscripts the three delivery keys.
stop_visits_strict(data) ==
    Get(Index0(Get(Get(Get(data, "Siri", Exc("KeyError")), "ServiceDelivery", Exc("KeyError")),
                   "StopMonitoringDelivery", Exc("KeyError"))),
        "MonitoredStopVisit", PyList(<<>>))

\* data.get("Siri", {}).get("ServiceDelivery", {})
\*     .get("StopMonitoringDelivery", [{}])[0].get("MonitoredStopVisit", [])
stop_visits(data) ==
    Get(Index0(Get(Get(Get(data, "Siri", EmptyDict), "ServiceDelivery", EmptyDict),
                   "StopMonitoringDelivery", PyList(<<EmptyDict>>))),
        "MonitoredStopVisit", PyList(<<>>))

\* f"From {origin_ref}"
FromOrigin(origin_ref) ==
    IF origin_ref.t = "str" /\ origin_ref.form = "text"
    THEN PyStr(<<"From ">> \o origin_ref.v)
    ELSE PyStr(<<"From ", "repr">>)

\* The first exception among the values, in evaluation order, or None.
FirstExc(vals) ==
    LET bad == {i \in 1..Len(vals) : IsExc(vals[i])}
    IN IF bad = {} THEN None
       ELSE vals[CHOOSE i \in bad : \A j \in bad : i <= j]

\* minutes_away of one visit, `clk` being the clock when datetime.now runs.
minutes_away_of(expected_arrival, clk) ==
    IF IsExc(expected_arrival) THEN expected_arrival
    ELSE IF ~Truthy(expected_arrival) THEN None
    ELSE LET arrival_time == fromisoformat(Replace(expected_arrival, "Z", "+00:00"))
         IN IF IsExc(arrival_time) THEN arrival_time
            ELSE PyInt(int_div(total_seconds(arrival_time,
                                             datetime_now(clk, arrival_time.off)), 60))

\* Lines 337-350: the dict appended for one visit, or the first exception
\* raised while its fields were computed (in the order the code computes them).
append_record(expected_arrival, stops_away, line_ref, progress_status, presentable_distance, origin_ref, minutes_away, route) ==
    IF IsExc(FirstExc(<<expected_arrival, stops_away, line_ref, progress_status,
                        presentable_distance, minutes_away, route>>))
    THEN FirstExc(<<expected_arrival, stops_away, line_ref, progress_status,
                    presentable_distance, minutes_away, route>>)
    ELSE [t |-> "dict",
          route |-> route,
          current_location |->
              IF Truthy(presentable_distance) THEN presentable_distance
              ELSE IF Truthy(progress_status) THEN progress_status
              ELSE IF Truthy(origin_ref) THEN FromOrigin(origin_ref)
              ELSE PyStr(<<"Unknown">>),
          minutes_away |-> minutes_away,
          stops_away |-> stops_away,
          expected_arrival |-> expected_arrival]

\* Lines 313-323, given call.get("ExpectedArrivalTime") and
\* call.get("Extensions", {}).get("Distances", {}).
call_record(journey, expected_arrival, distances, clk) ==
    append_record(expected_arrival,
                  Get(distances, "StopsFromCall", PyInt(0)),
                  Get(journey, "LineRef", PyStr(<<"Unknown">>)),
                  Get(journey, "ProgressStatus", PyStr(<<>>)),
                  Get(distances, "PresentableDistance", PyStr(<<>>)),
                  Get(journey, "OriginRef", PyStr(<<>>)),
                  minutes_away_of(expected_arrival, clk),
                  Replace(Get(journey, "LineRef", PyStr(<<"Unknown">>)), "MTA NYCT_", ""))

\* Lines 312-314, given journey.get("MonitoredCall", {}).
journey_record(journey, call, clk) ==
    call_record(journey,
                Get(call, "ExpectedArrivalTime", None),
                Get(Get(call, "Extensions", EmptyDict), "Distances", EmptyDict),
                clk)

\* One pass of the loop body (lines 309-350) for `visit`.
visit_record(visit, clk) ==
    journey_record(Get(visit, "MonitoredVehicleJourney", EmptyDict),
                   Get(Get(visit, "MonitoredVehicleJourney", EmptyDict),
                       "MonitoredCall", EmptyDict),
                   clk)

\* The clock reading when visit i's datetime.now() runs: the loop samples it
\* anew in every pass, `rate` seconds after the previous pass.
BusNow(clk, rate, i) ==
    clk + rate * (i - 1)

\* What parse_arrivals does with an exception of class `raised` after `done`
\* records were appended: catch, report and return them, or let it escape.
ParseOutcome(done, raised) ==
    IF raised \in ParseCaught
    THEN [ret |-> done, errors |-> 1, raised |-> ""]
    ELSE [ret |-> <<>>, errors |-> 0, raised |-> raised]

\* The least element of a non-empty set of numbers.
Least(S) ==
    CHOOSE i \in S : \A j \in S : i <= j

\* The result record of parse_arrivals: `now` is the clock sample of each
\* returned record.
parse_result(out, clk, rate) ==
    [ret |-> out.ret, errors |-> out.errors, raised |-> out.raised,
     now |-> [i \in 1..Len(out.ret) |-> BusNow(clk, rate, i)]]

\* The loop over the visits, `recs` being what each pass appends or raises and
\* `bad` the passes that raise: the loop ends at the first of them.
parse_loop(recs, bad) ==
    IF bad = {} THEN [ret |-> recs, errors |-> 0, raised |-> ""]
    ELSE ParseOutcome(SubSeq(recs, 1, Least(bad) - 1), recs[Least(bad)].v)

parse_visits(visits, clk, rate) ==
    IF IsExc(visits) THEN ParseOutcome(<<>>, visits.v)
    ELSE parse_loop([i \in 1..Len(visits.v) |->
                        visit_record(visits.v[i], BusNow(clk, rate, i))],
                    {i \in 1..Len(visits.v) :
                        IsExc(visit_record(visits.v[i], BusNow(clk, rate, i)))})

\* parse_arrivals(data): ret is the list returned, errors the number of
\* "Error parsing arrival data" reports, raised the class of an exception that
\* escapes ("" when none).
parse_arrivals(data, clk, rate) ==
    parse_result(parse_visits(Iterate(stop_visits(data)), clk, rate), clk, rate)

(***************************************************************************)
(* The bus endpoint: the responses requests.get can produce.               *)
(***************************************************************************)
SeqsUpTo(S, n) ==
    UNION {[1..k -> S] : k \in 0..n}

\* Visits whose fields all have the documented types.
GoodVisitKinds ==
    {"eta_m61", "eta_m30", "eta_0", "eta_p90", "no_eta"}

\* Visits with a value of the wrong type somewhere.
BadVisitKinds ==
    {"eta_int", "eta_text", "lineref_int", "visit_str", "call_list"}

M15 ==
    PyStr(<<"MTA NYCT_", "M15">>)

\* One MonitoredStopVisit element, its timestamp relative to the clock `clk`.
Visit(kind, clk) ==
    LET journey(f) == PyDict([MonitoredVehicleJourney |-> PyDict(f)])
        eta(e) == PyDict([ExpectedArrivalTime |-> e])
    IN CASE kind = "eta_m61" ->
              journey([LineRef |-> M15, MonitoredCall |-> eta(IsoStr(clk - 61, "Z"))])
         [] kind = "eta_m30" ->
              journey([LineRef |-> PyStr(<<"B63">>),
                       ProgressStatus |-> PyStr(<<"layover">>),
                       MonitoredCall |-> PyDict(
                           [ExpectedArrivalTime |-> IsoStr(clk - 30 - 18000, "-05:00"),
                            Extensions |-> PyDict([Distances |-> PyDict(
                                [PresentableDistance |-> PyStr(<<"1 stop away">>),
                                 StopsFromCall |-> PyInt(1)])])])])
         [] kind = "eta_0" ->
              journey([LineRef |-> M15, OriginRef |-> PyStr(<<"MTA_1">>),
                       MonitoredCall |-> eta(IsoStr(clk, "+00:00"))])
         [] kind = "eta_p90" ->
              journey([ProgressStatus |-> PyStr(<<"layover">>),
                       MonitoredCall |-> eta(IsoStr(clk + 90, "Z"))])
         [] kind = "no_eta" ->
              journey([LineRef |-> M15,
                       MonitoredCall |-> PyDict([Extensions |-> PyDict(
                           [Distances |-> PyDict([StopsFromCall |-> PyInt(2)])])])])
         [] kind = "eta_int" ->
              journey([LineRef |-> M15, MonitoredCall |-> eta(PyInt(5))])
         [] kind = "eta_text" ->
              journey([LineRef |-> M15, MonitoredCall |-> eta(PyStr(<<"soon">>))])
         [] kind = "lineref_int" ->
              journey([LineRef |-> PyInt(15),
                       MonitoredCall |-> eta(IsoStr(clk + 90, "Z"))])
         [] kind = "visit_str" -> PyStr(<<"x">>)
         [] OTHER -> journey([LineRef |-> M15, MonitoredCall |-> PyList(<<>>)])

\* Payloads without a usable delivery structure.
MissingKeyShapes ==
    {"empty", "no_siri", "no_service_delivery", "no_stop_monitoring"}

OddShapes ==
    {"no_visits", "delivery_empty", "delivery_null", "delivery_dict",
     "visits_null", "siri_list", "data_list"}

\* The JSON value of a response body.
BusJson(body, clk) ==
    LET delivery(d) == PyDict([Siri |-> PyDict([ServiceDelivery |-> PyDict(
                                   [StopMonitoringDelivery |-> d])])])
        shape == body.shape
    IN CASE shape = "ok" ->
              delivery(PyList(<<PyDict([MonitoredStopVisit |-> PyList(
                  [i \in 1..Len(body.visits) |-> Visit(body.visits[i], clk)])])>>))
         [] shape = "empty" -> EmptyDict
         [] shape = "no_siri" -> PyDict([Fault |-> PyStr(<<"x">>)])
         [] shape = "no_service_delivery" -> PyDict([Siri |-> EmptyDict])
         [] shape = "no_stop_monitoring" ->
              PyDict([Siri |-> PyDict([ServiceDelivery |-> EmptyDict])])
         [] shape = "no_visits" -> delivery(PyList(<<EmptyDict>>))
         [] shape = "delivery_empty" -> delivery(PyList(<<>>))
         [] shape = "delivery_null" -> delivery(None)
         [] shape = "delivery_dict" -> delivery(EmptyDict)
         [] shape = "visits_null" ->
              delivery(PyList(<<PyDict([MonitoredStopVisit |-> None])>>))
         [] shape = "siri_list" -> PyDict([Siri |-> PyList(<<>>)])
         [] OTHER -> PyList(<<>>)

BusBodies ==
    {[shape |-> "ok", visits |-> vs] :
        vs \in SeqsUpTo(GoodVisitKinds \cup BadVisitKinds, MaxVisits)}
    \cup {[shape |-> s, visits |-> <<>>] : s \in MissingKeyShapes \cup OddShapes}
    \cup {[shape |-> "not_json", visits |-> <<>>]}

\* What requests.get + raise_for_status end in.
TransportErrors ==
    {"ConnectionError", "Timeout", "HTTPError"}

BusResponses ==
    {[outcome |-> e, body |-> [shape |-> "empty", visits |-> <<>>]] : e \in TransportErrors}
    \cup {[outcome |-> "ok", body |-> b] : b \in BusBodies}

\* The class response.json() raises on a body that is not JSON: a
\* RequestException in requests >= 2.27, a plain ValueError before.
JsonErrorClasses ==
    {"RequestException", "ValueError"}

(***************************************************************************)
(* MTABusTracker.get_bus_arrivals                                          *)
(***************************************************************************)
\* A variant of FetchFailed that lets the exception escape.
FetchFailedRaises(class) ==
    [ret |-> EmptyDict, errors |-> 0, raised |-> class, requests |-> 1]

\* except requests.exceptions.RequestException: report, return {}.
FetchFailed(class) ==
    [ret |-> EmptyDict, errors |-> 1, raised |-> "", requests |-> 1]

\* get_bus_arrivals: ret is the value returned, errors the number of "Error
\* fetching bus data" reports, raised the class of an escaping exception,
\* requests the number of HTTP requests made.
get_bus_arrivals(response, clk, json_error) ==
    IF response.outcome # "ok" THEN FetchFailed(response.outcome)
    ELSE IF response.body.shape = "not_json"
    THEN IF json_error = "RequestException" THEN FetchFailed(json_error)
         ELSE [ret |-> EmptyDict, errors |-> 0, raised |-> json_error, requests |-> 1]
    ELSE [ret |-> BusJson(response.body, clk), errors |-> 0, raised |-> "",
          requests |-> 1]

(***************************************************************************)
(* The train endpoint: the GTFS-realtime feed messages it can serve.       *)
(* A stop id is a sequence of characters.                                  *)
(***************************************************************************)
\* One stop_time_update: HasField('arrival') / HasField('departure') and the
\* time of each (0 when the block carries no time).
StopTimeUpdate(stop_id, has_arrival, arrival, has_departure, departure) ==
    [stop_id |-> stop_id,
     has_arrival |-> has_arrival, arrival |-> arrival,
     has_departure |-> has_departure, departure |-> departure]

Arrives(stop_id, time) ==
    StopTimeUpdate(stop_id, TRUE, time, FALSE, 0)

EntityKinds ==
    {"vehicle", "trip_4stops", "q_an_m30", "q_asn_60", "six_a_notime", "q_an_dep"}

\* One feed entity, its times relative to the clock `clk`.
Entity(kind, clk) ==
    LET trip(route_id, updates) ==
            [has_trip_update |-> TRUE, route_id |-> route_id,
             stop_time_update |-> updates]
    IN CASE kind = "vehicle" ->
              [has_trip_update |-> FALSE, route_id |-> "", stop_time_update |-> <<>>]
         [] kind = "trip_4stops" ->
              trip("6", <<Arrives(<<"A", "N">>, clk + 120),
                          Arrives(<<"B", "N">>, clk + 60),
                          Arrives(<<"A", "S">>, clk + 10),
                          Arrives(<<"A", "S">>, clk - 61)>>)
         [] kind = "q_an_m30" -> trip("Q", <<Arrives(<<"A", "N">>, clk - 30)>>)
         [] kind = "q_asn_60" -> trip("Q", <<Arrives(<<"A", "S", "N">>, clk + 60)>>)
         [] kind = "six_a_notime" ->
              trip("6", <<StopTimeUpdate(<<"A">>, TRUE, 0, TRUE, clk + 90)>>)
         [] OTHER ->
              trip("Q", <<StopTimeUpdate(<<"A", "N">>, FALSE, 0, TRUE, clk),
                          StopTimeUpdate(<<"A", "S">>, FALSE, 0, FALSE, 0)>>)

\* response.content: a feed message, or bytes ParseFromString rejects.
TrainContents(clk) ==
    {[decodable |-> TRUE, entity |-> [i \in 1..Len(es) |-> Entity(es[i], clk)]] :
        es \in SeqsUpTo(EntityKinds, MaxEntities)}
    \cup {[decodable |-> FALSE, entity |-> <<>>]}

TrainResponses(clk) ==
    {[outcome |-> e, content |-> [decodable |-> FALSE, entity |-> <<>>]] :
        e \in TransportErrors}
    \cup {[outcome |-> "ok", content |-> c] : c \in TrainContents(clk)}

\* The stop ids of the updates in a feed handed to a direct call.
CallStopIds ==
    {<<"A">>, <<"A", "N">>, <<"A", "S">>, <<"A", "S", "N">>, <<"A", "N", "S">>,
     <<"B", "N">>}

\* The stop-time updates of such a feed: an arrival time, an arrival block
\* without a time beside a departure time, a departure time alone, or neither.
CallUpdates(clk) ==
    UNION {{Arrives(id, clk + 50),
            Arrives(id, clk + 10),
            StopTimeUpdate(id, TRUE, 0, TRUE, clk + 90),
            StopTimeUpdate(id, FALSE, 0, TRUE, clk + 50),
            StopTimeUpdate(id, FALSE, 0, FALSE, 0)} : id \in CallStopIds}

\* One trip_update entity of route Q.
Trip(updates) ==
    [has_trip_update |-> TRUE, route_id |-> "Q", stop_time_update |-> updates]

\* The feeds handed to a direct call: the updates in one trip, or one trip for
\* each update.
CallFeeds(clk) ==
    {<<Trip(us)>> : us \in SeqsUpTo(CallUpdates(clk), MaxUpdates)}
    \cup {[i \in 1..Len(us) |-> Trip(<<us[i]>>)] :
             us \in SeqsUpTo(CallUpdates(clk), MaxUpdates)}

(***************************************************************************)
(* MTATrainTracker.get_train_arrivals                                      *)
(***************************************************************************)
\* s.rstrip(chars)
RECURSIVE rstrip(_, _)
rstrip(s, chars) ==
    IF Len(s) > 0 /\ s[Len(s)] \in chars THEN rstrip(SubSeq(s, 1, Len(s) - 1), chars)
    ELSE s

\* A variant of endswith that finds c anywhere in s.
contains(s, c) ==
    \E i \in 1..Len(s) : s[i] = c

\* s.endswith(c) for a single character c
endswith(s, c) ==
    Len(s) > 0 /\ s[Len(s)] = c

\* c.upper()
UpperChar(c) ==
    CASE c = "q" -> "Q"
      [] c = "a" -> "A"
      [] OTHER   -> c

\* route.upper() of a one-character route name ("" stays "")
upper(route) ==
    UpperChar(route)

\* A variant of sort_by_arrival_time whose key is the derived minute value.
RECURSIVE sort_by_minutes_away(_)
sort_by_minutes_away(arrivals) ==
    IF Len(arrivals) <= 1 THEN arrivals
    ELSE LET rest == sort_by_minutes_away(SubSeq(arrivals, 1, Len(arrivals) - 1))
             last == arrivals[Len(arrivals)]
             keep == {i \in 1..Len(rest) : rest[i].minutes_away <= last.minutes_away}
             n == Cardinality(keep)
         IN SubSeq(rest, 1, n) \o <<last>> \o SubSeq(rest, n + 1, Len(rest))

\* arrivals.sort(key=lambda x: x["arrival_time"]): stable, ascending.
RECURSIVE sort_by_arrival_time(_)
sort_by_arrival_time(arrivals) ==
    IF Len(arrivals) <= 1 THEN arrivals
    ELSE LET rest == sort_by_arrival_time(SubSeq(arrivals, 1, Len(arrivals) - 1))
             last == arrivals[Len(arrivals)]
             keep == {i \in 1..Len(rest) : rest[i].arrival_time <= last.arrival_time}
             n == Cardinality(keep)
         IN SubSeq(rest, 1, n) \o <<last>> \o SubSeq(rest, n + 1, Len(rest))

\* A variant of TrainNow that samples the clock for every update.
TrainNowEach(clk, i) ==
    clk + (i - 1)

\* The clock reading used for the i-th update processed: now is sampled once,
\* before the loop over the entities.
TrainNow(clk, i) ==
    clk

\* The dicts one stop_time_update appends (none or one).  The field now is not
\* a key of the program's dict: it records the clock sample the record was
\* computed from.
update_records(stop_update, trip_route, station_id, now) ==
    LET stop_id == rstrip(stop_update.stop_id, {"N", "S"})
        arrival_time == IF stop_update.has_arrival THEN stop_update.arrival
                        ELSE stop_update.departure
        minutes_away == int_div(arrival_time - now, 60)
    IN IF stop_id # station_id THEN <<>>
       ELSE IF ~stop_update.has_arrival /\ ~stop_update.has_departure THEN <<>>
       ELSE IF minutes_away >= 0
       THEN <<[route |-> trip_route,
               minutes_away |-> minutes_away,
               arrival_time |-> arrival_time,
               direction |-> IF endswith(stop_update.stop_id, "N")
                             THEN "Uptown" ELSE "Downtown",
               now |-> now,
               update |-> stop_update]>>
       ELSE <<>>

RECURSIVE Flatten(_)
Flatten(seqs) ==
    IF seqs = <<>> THEN <<>> ELSE Head(seqs) \o Flatten(Tail(seqs))

\* The number of stop_time_updates in the entities before entity e.
UpdatesBefore(feed, e) ==
    Len(Flatten([j \in 1..(e - 1) |-> feed[j].stop_time_update]))

\* The arrivals list before sorting.
collect_arrivals(feed, station_id, route, clk) ==
    Flatten([e \in 1..Len(feed) |->
        IF ~feed[e].has_trip_update THEN <<>>
        ELSE IF route # "" /\ feed[e].route_id # upper(route) THEN <<>>
        ELSE Flatten([u \in 1..Len(feed[e].stop_time_update) |->
                 update_records(feed[e].stop_time_update[u], feed[e].route_id, station_id,
                                TrainNow(clk, UpdatesBefore(feed, e) + u))])])

\* get_train_arrivals: ret is the list returned, fetch_errors / parse_errors the
\* number of "Error fetching train data" / "Error parsing train data" reports.
\* Every exception is caught (except Exception), so none escapes.
get_train_arrivals(response, station_id, route, clk) ==
    IF response.outcome # "ok"
    THEN [ret |-> <<>>, fetch_errors |-> 1, parse_errors |-> 0, requests |-> 1]
    ELSE IF ~response.content.decodable
    THEN [ret |-> <<>>, fetch_errors |-> 0, parse_errors |-> 1, requests |-> 1]
    ELSE [ret |-> sort_by_arrival_time(collect_arrivals(
                      response.content.entity, station_id, route, clk)),
          fetch_errors |-> 0, parse_errors |-> 0, requests |-> 1]

(***************************************************************************)
(* main: configuration (lines 485-570)                                     *)
(***************************************************************************)
NoEnv ==
    [MTA_BUS_API_KEY |-> None, MTA_API_KEY |-> None, MTA_STOP_ID |-> None,
     MTA_ROUTE |-> None, MTA_TRAIN_API_KEY |-> None, MTA_TRAIN_STATION_ID |-> None,
     MTA_TRAIN_ROUTE |-> None, MTA_REFRESH_INTERVAL |-> None,
     MTA_MAX_TRAINS |-> None, MTA_MAX_BUSES |-> None]

Key ==
    PyStr(<<"k", "e", "y">>)

StopId ==
    PyStr(<<"MTA_305423">>)

StationA ==
    PyStr(<<"A">>)

\* The environments the program is started in.
EnvTable ==
    << NoEnv,
       [NoEnv EXCEPT !.MTA_API_KEY = Key],
       [NoEnv EXCEPT !.MTA_STOP_ID = StopId, !.MTA_TRAIN_STATION_ID = StationA,
                     !.MTA_BUS_API_KEY = PyStr(<<>>)],
       [NoEnv EXCEPT !.MTA_BUS_API_KEY = Key, !.MTA_STOP_ID = StopId,
                     !.MTA_ROUTE = PyStr(<<"M15">>),
                     !.MTA_REFRESH_INTERVAL = NumStr(7),
                     !.MTA_MAX_BUSES = NumStr(0 - 1)],
       [NoEnv EXCEPT !.MTA_API_KEY = Key, !.MTA_TRAIN_STATION_ID = StationA,
                     !.MTA_REFRESH_INTERVAL = NumStr(5),
                     !.MTA_MAX_TRAINS = PyStr(<<"many">>)],
       [NoEnv EXCEPT !.MTA_TRAIN_API_KEY = Key, !.MTA_TRAIN_STATION_ID = StationA,
                     !.MTA_BUS_API_KEY = Key, !.MTA_STOP_ID = PyStr(<<>>),
                     !.MTA_REFRESH_INTERVAL = PyStr(<<"fast">>),
                     !.MTA_MAX_TRAINS = NumStr(1)],
       [NoEnv EXCEPT !.MTA_API_KEY = Key, !.MTA_STOP_ID = StopId,
                     !.MTA_TRAIN_STATION_ID = StationA,
                     !.MTA_TRAIN_ROUTE = PyStr(<<"q">>),
                     !.MTA_REFRESH_INTERVAL = NumStr(2),
                     !.MTA_MAX_BUSES = NumStr(1), !.MTA_MAX_TRAINS = NumStr(1)],
       [NoEnv EXCEPT !.MTA_BUS_API_KEY = Key, !.MTA_TRAIN_API_KEY = Key,
                     !.MTA_STOP_ID = StopId, !.MTA_TRAIN_STATION_ID = StationA,
                     !.MTA_REFRESH_INTERVAL = PyStr(<<>>),
                     !.MTA_MAX_BUSES = NumStr(2), !.MTA_MAX_TRAINS = NumStr(0)] >>

\* A variant of clamp_refresh without the floor.
clamp_refresh_none(n) ==
    n

\* if refresh_interval < 5: refresh_interval = 5
clamp_refresh(n) ==
    IF n < 5 THEN 5 ELSE n

\* refresh_interval as lines 532-543 set it from MTA_REFRESH_INTERVAL.
parse_refresh(refresh_env) ==
    IF Truthy(refresh_env)
    THEN IF IsExc(py_int(refresh_env)) THEN 30 ELSE clamp_refresh(py_int(refresh_env).v)
    ELSE 30

\* A variant of parse_max that accepts every integer.
parse_max_any(max_env) ==
    IF Truthy(max_env)
    THEN IF IsExc(py_int(max_env)) THEN 10 ELSE py_int(max_env).v
    ELSE 10

\* max_trains / max_buses as lines 546-567 set them.
parse_max(max_env) ==
    IF Truthy(max_env)
    THEN IF IsExc(py_int(max_env)) THEN 10
         ELSE IF py_int(max_env).v < 1 THEN 10 ELSE py_int(max_env).v
    ELSE 10

\* The one-character route name of a route setting, "" for None or "".
RouteName(v) ==
    IF Truthy(v) THEN v.v[1] ELSE ""

(***************************************************************************)
(* Rendering: the rows the loops hand to print.                            *)
(***************************************************************************)
\* A variant of bus_view that shows every record.
bus_view_all(arrivals, i, count, limit) ==
    arrivals

\* A variant of bus_view that counts every record against the limit.
RECURSIVE bus_view_slots(_, _, _, _)
bus_view_slots(arrivals, i, count, limit) ==
    IF i > Len(arrivals) \/ count >= limit THEN <<>>
    ELSE IF arrivals[i].minutes_away.t = "none"
    THEN bus_view_slots(arrivals, i + 1, count + 1, limit)
    ELSE <<arrivals[i]>> \o bus_view_slots(arrivals, i + 1, count + 1, limit)

\* main, lines 605-629: the records printed from arrivals[i..], `count` rows
\* having been printed already.
RECURSIVE bus_view(_, _, _, _)
bus_view(arrivals, i, count, limit) ==
    IF i > Len(arrivals) THEN <<>>
    ELSE IF arrivals[i].minutes_away.t = "none"
    THEN bus_view(arrivals, i + 1, count, limit)
    ELSE IF count >= limit THEN <<>>
    ELSE <<arrivals[i]>> \o bus_view(arrivals, i + 1, count + 1, limit)

\* main, line 645: train_arrivals[:max_trains]
train_view(arrivals, limit) ==
    SubSeq(arrivals, 1, Min(limit, Len(arrivals)))

\* monitor_arrivals and display_arrivals of the bus tracker: every record
\* with a known minutes_away.
bus_monitor_view(arrivals) ==
    SelectSeq(arrivals, LAMBDA a : a.minutes_away.t # "none")

(***************************************************************************)
(* State.                                                                  *)
(***************************************************************************)
VARIABLES
    entry,              \* what runs: "main", "bus_monitor", "train_monitor", or
                        \* "train_call", one call of get_train_arrivals
    feed,               \* train_call: the feed message the request delivers
    pc,                 \* where the loop is
    environ,            \* os.environ
    clock,              \* the wall clock, epoch seconds
    bus_tracker,        \* main: a bus tracker was created
    train_tracker,      \* main: a train tracker was created
    train_station_id,
    train_route,
    refresh_interval,
    max_trains,
    max_buses,
    bus_data,           \* what get_bus_arrivals returned in this pass
    bus_arrivals,       \* what parse_arrivals returned in this pass
    train_arrivals,     \* what get_train_arrivals returned in this pass
    bus_rows,           \* the bus rows printed in this pass
    train_rows,         \* the train rows printed in this pass
    bus_now,            \* the clock sample of each record of bus_arrivals
    outcome,            \* how each source's request of this pass ended
    requests,           \* HTTP requests made in this pass, per source
    reports,            \* error reports printed in this pass, per kind
    rendered,           \* the sources whose section was printed in this pass
    failed_before,      \* the sources whose request failed in the previous pass
    slept,              \* the argument of the last time.sleep(refresh_interval)
    raised,             \* the class of the exception that ended the program
    sigint,             \* Ctrl+C arrived and KeyboardInterrupt is not handled yet
    cancelled_at        \* where the loop was when Ctrl+C arrived

config_vars ==
    <<entry, feed, environ, bus_tracker, train_tracker, train_station_id, train_route,
      refresh_interval, max_trains, max_buses>>

bus_vars ==
    <<bus_data, bus_arrivals, bus_rows, bus_now>>

train_vars ==
    <<train_arrivals, train_rows>>

pass_vars ==
    <<outcome, requests, reports, rendered>>

vars ==
    <<pc, clock, config_vars, bus_vars, train_vars, pass_vars, failed_before,
      slept, raised, sigint, cancelled_at>>

NoReports ==
    [bus_fetch |-> 0, bus_parse |-> 0, train_fetch |-> 0, train_parse |-> 0]

NoRequests ==
    [bus |-> 0, train |-> 0]

NoOutcome ==
    [bus |-> "", train |-> ""]

\* The refresh_interval arguments monitor_arrivals is called with.
MonitorIntervals ==
    {0 - 1, 2, 5, 30}

\* The loop positions of main and of the monitor loops.
Polling ==
    {"tick", "bus_fetch", "train_fetch", "monitor_fetch"}

Waiting ==
    {"waiting", "monitor_waiting"}

\* A variant of Deliverable: KeyboardInterrupt is raised only during the sleep.
DeliverableWaiting(at) ==
    at \in Waiting

\* Whether a pending Ctrl+C raises KeyboardInterrupt at loop position `at`:
\* Python raises it in the main thread wherever the loop is, a blocking
\* requests.get or time.sleep included.
Deliverable(at) ==
    at \in Polling \cup Waiting

\* The loop may take its next step: no KeyboardInterrupt is being raised.
Running ==
    ~(sigint /\ Deliverable(pc))

Init ==
    /\ entry \in {"main", "bus_monitor", "train_monitor", "train_call"}
    /\ feed \in IF entry = "train_call" THEN CallFeeds(StartClock) ELSE {<<>>}
    /\ \E i \in IF entry = "main" THEN DOMAIN EnvTable ELSE {1} : environ = EnvTable[i]
    /\ pc = CASE entry = "main" -> "start"
              [] entry = "train_call" -> "call"
              [] OTHER -> "monitor_fetch"
    /\ clock = StartClock
    /\ bus_tracker = FALSE
    /\ train_tracker = FALSE
    /\ train_station_id = IF entry \in {"train_monitor", "train_call"}
                          THEN StationA ELSE None
    /\ train_route = ""
    /\ refresh_interval \in IF entry \in {"bus_monitor", "train_monitor"}
                             THEN MonitorIntervals ELSE {0}
    /\ max_trains = 10
    /\ max_buses = 10
    /\ bus_data = None
    /\ bus_arrivals = <<>>
    /\ train_arrivals = <<>>
    /\ bus_rows = <<>>
    /\ train_rows = <<>>
    /\ bus_now = <<>>
    /\ outcome = NoOutcome
    /\ requests = NoRequests
    /\ reports = NoReports
    /\ rendered = {}
    /\ failed_before = {}
    /\ slept = 0
    /\ raised = ""
    /\ sigint = FALSE
    /\ cancelled_at = ""

(***************************************************************************)
(* main                                                                    *)
(***************************************************************************)
\* Lines 485-570: read the environment; return when no tracker is configured.
main_setup ==
    /\ pc = "start"
    /\ LET bus_api_key == Or(environ.MTA_BUS_API_KEY, environ.MTA_API_KEY)
           train_api_key == Or(environ.MTA_TRAIN_API_KEY, environ.MTA_API_KEY)
           bus == Truthy(bus_api_key) /\ Truthy(environ.MTA_STOP_ID)
           train == Truthy(train_api_key) /\ Truthy(environ.MTA_TRAIN_STATION_ID)
       IN /\ bus_tracker' = bus
          /\ train_tracker' = train
          /\ train_station_id' = environ.MTA_TRAIN_STATION_ID
          /\ train_route' = IF train THEN upper(RouteName(environ.MTA_TRAIN_ROUTE))
                            ELSE RouteName(environ.MTA_TRAIN_ROUTE)
          /\ IF ~bus /\ ~train
             THEN /\ pc' = "returned"
                  /\ UNCHANGED <<refresh_interval, max_trains, max_buses>>
             ELSE /\ pc' = "tick"
                  /\ refresh_interval' = parse_refresh(environ.MTA_REFRESH_INTERVAL)
                  /\ max_trains' = parse_max(environ.MTA_MAX_TRAINS)
                  /\ max_buses' = parse_max(environ.MTA_MAX_BUSES)
    /\ UNCHANGED <<entry, feed, environ, clock, bus_vars, train_vars, pass_vars,
                   failed_before, slept, raised, sigint, cancelled_at>>

\* Lines 578-594: the top of a pass, up to the first request.
tick ==
    /\ pc = "tick"
    /\ Running
    /\ pc' = IF bus_tracker THEN "bus_fetch" ELSE "train_fetch"
    /\ bus_data' = None
    /\ bus_arrivals' = <<>>
    /\ bus_rows' = <<>>
    /\ bus_now' = <<>>
    /\ train_arrivals' = <<>>
    /\ train_rows' = <<>>
    /\ outcome' = NoOutcome
    /\ requests' = NoRequests
    /\ reports' = NoReports
    /\ rendered' = {}
    /\ failed_before' = {src \in {"bus", "train"} : outcome[src] \in TransportErrors}
    /\ UNCHANGED <<clock, config_vars, slept, raised, sigint, cancelled_at>>

\* Lines 597-629, given what get_bus_arrivals returned and what parse_arrivals
\* makes of it.
bus_parsed(got, parsed, rate) ==
    /\ bus_data' = got.ret
    /\ clock' = clock + rate * Len(parsed.ret)
    /\ reports' = [reports EXCEPT !.bus_fetch = got.errors, !.bus_parse = parsed.errors]
    /\ raised' = parsed.raised
    /\ IF parsed.raised # ""
       THEN /\ pc' = "crashed"
            /\ UNCHANGED <<bus_arrivals, bus_rows, bus_now, rendered>>
       ELSE /\ pc' = IF train_tracker THEN "train_fetch" ELSE "waiting"
            /\ bus_arrivals' = parsed.ret
            /\ bus_now' = parsed.now
            /\ bus_rows' = bus_view(parsed.ret, 1, 0, max_buses)
            /\ rendered' = rendered \cup {"bus"}

\* Line 596 onwards, given what get_bus_arrivals returned or raised; `rate` is
\* the number of seconds the clock advances per visit parsed.
bus_fetched(got, rate) ==
    /\ requests' = [requests EXCEPT !.bus = got.requests]
    /\ IF got.raised # ""
       THEN /\ pc' = "crashed"
            /\ raised' = got.raised
            /\ UNCHANGED <<bus_data, bus_arrivals, bus_rows, bus_now, rendered,
                           reports, clock>>
       ELSE bus_parsed(got, parse_arrivals(got.ret, clock, rate), rate)

\* Lines 596-629: the bus request ends; its result is parsed and printed.
bus_section ==
    /\ pc = "bus_fetch"
    /\ Running
    /\ \E response \in BusResponses, json_error \in JsonErrorClasses, rate \in {0, 1} :
         /\ (response.body.shape # "not_json" => json_error = "RequestException")
         /\ outcome' = [outcome EXCEPT !.bus = response.outcome]
         /\ bus_fetched(get_bus_arrivals(response, clock, json_error), rate)
    /\ UNCHANGED <<config_vars, train_vars, failed_before, slept, sigint, cancelled_at>>

\* Lines 637-658: the train request ends; its result is printed.
train_section ==
    /\ pc = "train_fetch"
    /\ Running
    /\ \E response \in TrainResponses(clock) :
         LET got == get_train_arrivals(response, train_station_id.v, train_route, clock)
         IN /\ outcome' = [outcome EXCEPT !.train = response.outcome]
            /\ requests' = [requests EXCEPT !.train = got.requests]
            /\ reports' = [reports EXCEPT !.train_fetch = got.fetch_errors,
                                          !.train_parse = got.parse_errors]
            /\ train_arrivals' = got.ret
            /\ train_rows' = train_view(got.ret, max_trains)
            /\ rendered' = rendered \cup {"train"}
    /\ pc' = "waiting"
    /\ UNCHANGED <<clock, config_vars, bus_vars, failed_before, slept, raised,
                   sigint, cancelled_at>>

\* Line 661: time.sleep(refresh_interval), then the next pass.
sleep ==
    /\ pc = "waiting"
    /\ Running
    /\ clock - StartClock <= MaxElapsed
    /\ slept' = refresh_interval
    /\ clock' = clock + refresh_interval
    /\ pc' = "tick"
    /\ UNCHANGED <<config_vars, bus_vars, train_vars, pass_vars, failed_before,
                   raised, sigint, cancelled_at>>

(***************************************************************************)
(* MTABusTracker.monitor_arrivals and MTATrainTracker.monitor_arrivals     *)
(***************************************************************************)
\* Lines 434-462, given what get_bus_arrivals returned and what parse_arrivals
\* makes of it.
bus_monitor_parsed(got, parsed, rate) ==
    /\ bus_data' = got.ret
    /\ clock' = clock + rate * Len(parsed.ret)
    /\ reports' = [NoReports EXCEPT !.bus_fetch = got.errors, !.bus_parse = parsed.errors]
    /\ raised' = parsed.raised
    /\ bus_arrivals' = parsed.ret
    /\ bus_now' = parsed.now
    /\ bus_rows' = bus_monitor_view(parsed.ret)
    /\ rendered' = IF parsed.raised # "" THEN {} ELSE {"bus"}
    /\ pc' = IF parsed.raised # "" THEN "crashed" ELSE "monitor_waiting"

\* Line 433 onwards, given what get_bus_arrivals returned or raised.
bus_monitor_fetched(got, rate) ==
    /\ requests' = [NoRequests EXCEPT !.bus = got.requests]
    /\ IF got.raised # ""
       THEN /\ pc' = "crashed"
            /\ raised' = got.raised
            /\ reports' = NoReports
            /\ rendered' = {}
            /\ UNCHANGED <<bus_data, bus_arrivals, bus_rows, bus_now, clock>>
       ELSE bus_monitor_parsed(got, parse_arrivals(got.ret, clock, rate), rate)

\* Lines 428-462: one pass of the bus monitor loop, up to the sleep.
bus_monitor_pass ==
    /\ entry = "bus_monitor"
    /\ pc = "monitor_fetch"
    /\ Running
    /\ \E response \in BusResponses, json_error \in JsonErrorClasses, rate \in {0, 1} :
         /\ (response.body.shape # "not_json" => json_error = "RequestException")
         /\ outcome' = [NoOutcome EXCEPT !.bus = response.outcome]
         /\ bus_monitor_fetched(get_bus_arrivals(response, clock, json_error), rate)
    /\ UNCHANGED <<config_vars, train_vars, failed_before, slept, sigint, cancelled_at>>

\* Lines 207-232: one pass of the train monitor loop, up to the sleep.
train_monitor_pass ==
    /\ entry = "train_monitor"
    /\ pc = "monitor_fetch"
    /\ Running
    /\ \E response \in TrainResponses(clock) :
         LET got == get_train_arrivals(response, train_station_id.v, train_route, clock)
         IN /\ outcome' = [NoOutcome EXCEPT !.train = response.outcome]
            /\ requests' = [NoRequests EXCEPT !.train = got.requests]
            /\ reports' = [NoReports EXCEPT !.train_fetch = got.fetch_errors,
                                            !.train_parse = got.parse_errors]
            /\ train_arrivals' = got.ret
            /\ train_rows' = train_view(got.ret, 10)
    /\ rendered' = {"train"}
    /\ pc' = "monitor_waiting"
    /\ UNCHANGED <<clock, config_vars, bus_vars, failed_before, slept, raised, sigint,
                   cancelled_at>>

\* Lines 235-245 and 465-475: time.sleep(refresh_interval) with the caller's
\* value, then the next pass begins.  time.sleep raises ValueError for a
\* negative length.
monitor_sleep ==
    /\ pc = "monitor_waiting"
    /\ Running
    /\ IF refresh_interval < 0
       THEN /\ pc' = "crashed"
            /\ raised' = "ValueError"
            /\ UNCHANGED <<clock, slept, bus_vars, train_vars, pass_vars, failed_before>>
       ELSE /\ clock - StartClock <= MaxElapsed
            /\ slept' = refresh_interval
            /\ clock' = clock + refresh_interval
            /\ pc' = "monitor_fetch"
            /\ bus_data' = None
            /\ bus_arrivals' = <<>>
            /\ bus_rows' = <<>>
            /\ bus_now' = <<>>
            /\ train_arrivals' = <<>>
            /\ train_rows' = <<>>
            /\ outcome' = NoOutcome
            /\ requests' = NoRequests
            /\ reports' = NoReports
            /\ rendered' = {}
            /\ failed_before' = {src \in {"bus", "train"} : outcome[src] \in TransportErrors}
            /\ UNCHANGED raised
    /\ UNCHANGED <<config_vars, sigint, cancelled_at>>

(***************************************************************************)
(* One call of MTATrainTracker.get_train_arrivals                          *)
(***************************************************************************)
\* get_train_arrivals(station_id) when the request delivers `feed`.
train_call ==
    /\ entry = "train_call"
    /\ pc = "call"
    /\ LET got == get_train_arrivals(
                      [outcome |-> "ok", content |-> [decodable |-> TRUE, entity |-> feed]],
                      train_station_id.v, train_route, clock)
       IN /\ outcome' = [NoOutcome EXCEPT !.train = "ok"]
          /\ requests' = [NoRequests EXCEPT !.train = got.requests]
          /\ reports' = [NoReports EXCEPT !.train_fetch = got.fetch_errors,
                                          !.train_parse = got.parse_errors]
          /\ train_arrivals' = got.ret
    /\ pc' = "called"
    /\ UNCHANGED <<clock, config_vars, bus_vars, train_rows, rendered, failed_before,
                   slept, raised, sigint, cancelled_at>>

(***************************************************************************)
(* Operator cancellation                                                   *)
(***************************************************************************)
\* The operator presses Ctrl+C while a loop runs.
ctrl_c ==
    /\ pc \in Polling \cup Waiting
    /\ ~sigint
    /\ sigint' = TRUE
    /\ cancelled_at' = pc
    /\ UNCHANGED <<pc, clock, config_vars, bus_vars, train_vars, pass_vars,
                   failed_before, slept, raised>>

\* except KeyboardInterrupt: print the goodbye line and sys.exit(0).
KeyboardInterrupt ==
    /\ sigint
    /\ Deliverable(pc)
    /\ pc' = "stopped"
    /\ sigint' = FALSE
    /\ UNCHANGED <<clock, config_vars, bus_vars, train_vars, pass_vars,
                   failed_before, slept, raised, cancelled_at>>

Next ==
    \/ main_setup
    \/ tick
    \/ bus_section
    \/ train_section
    \/ sleep
    \/ bus_monitor_pass
    \/ train_monitor_pass
    \/ monitor_sleep
    \/ train_call
    \/ ctrl_c
    \/ KeyboardInterrupt

Spec ==
    Init /\ [][Next]_vars

(***************************************************************************)
(* Properties.                                                             *)
(***************************************************************************)
\* The sources main has a tracker for.
Configured ==
    {src \in {"bus", "train"} : IF src = "bus" THEN bus_tracker ELSE train_tracker}

\* The indices of the bus records that carry an ETA.
WithEta ==
    {i \in DOMAIN bus_arrivals : bus_arrivals[i].minutes_away.t = "int"}

\* The instant (epoch seconds) an ISO-8601 timestamp denotes.
ArrivalInstant(e) ==
    e.wall - ZoneOffset(e.zone)

\* Seconds from the clock sample of bus record i to its expected arrival.
SecondsAway(i) ==
    ArrivalInstant(bus_arrivals[i].expected_arrival) - bus_now[i]

\* C1: once main's poll loop runs, no exception escapes the bus normalizer:
\* whatever payload was fetched, the loop is never ended by an exception.
C1_NoExceptionEscapesNormalizer ==
    ~(entry = "main" /\ pc = "crashed" /\ bus_data.t # "none")

\* C2: when both sources are configured, a pass in which the bus client
\* returned and that has ended (the loop is waiting, or the pass was ended by
\* an error of the bus path) has run and printed the train path.
C2_TrainRunsWhateverBusDoes ==
    (/\ entry = "main" /\ bus_tracker /\ train_tracker
     /\ bus_data.t # "none" /\ pc \in {"waiting", "crashed"})
        => "train" \in rendered

\* C3 as claimed: minutes_away of every bus record with a timestamp is
\* floor((t - now) / 60), also for t in the past.
C3_MinutesAwayIsFloor ==
    \A i \in WithEta :
        /\ 60 * bus_arrivals[i].minutes_away.v <= SecondsAway(i)
        /\ SecondsAway(i) < 60 * (bus_arrivals[i].minutes_away.v + 1)

\* C3 as amended: minutes_away of every bus record with a timestamp is
\* (t - now) / 60 truncated toward zero: the floor for t >= now, the ceiling
\* for t in the past.
C3_MinutesAwayTruncates ==
    \A i \in WithEta :
        IF SecondsAway(i) >= 0
        THEN /\ 60 * bus_arrivals[i].minutes_away.v <= SecondsAway(i)
             /\ SecondsAway(i) < 60 * (bus_arrivals[i].minutes_away.v + 1)
        ELSE /\ 60 * (bus_arrivals[i].minutes_away.v - 1) < SecondsAway(i)
             /\ SecondsAway(i) <= 60 * bus_arrivals[i].minutes_away.v

\* A bus record whose arrival lies 1 to 59 seconds in the past was parsed.
C3_Witness ==
    \E i \in WithEta : SecondsAway(i) \in (0 - 59)..(0 - 1)

\* C4: get_train_arrivals returns no record of a train that has departed:
\* every returned record has arrival_time >= now.
C4_NoDepartedTrain ==
    \A i \in DOMAIN train_arrivals : train_arrivals[i].arrival_time >= train_arrivals[i].now

\* The clock samples the records of this pass were computed from.
Samples ==
    {bus_now[i] : i \in WithEta} \cup {train_arrivals[i].now : i \in DOMAIN train_arrivals}

\* C5 as claimed: all records of one pass, bus and train, are computed from
\* one and the same clock sample.
C5_OneSamplePerTick ==
    Cardinality(Samples) <= 1

\* C5 as amended: the train records of one pass share one clock sample; each
\* bus record has its own sample, taken no earlier than that of the record
\* before it, and the train sample is taken no earlier than the bus samples.
C5_OneSamplePerTrainCall ==
    /\ \A i, j \in DOMAIN train_arrivals : train_arrivals[i].now = train_arrivals[j].now
    /\ \A i, j \in WithEta : i <= j => bus_now[i] <= bus_now[j]
    /\ \A i \in WithEta, j \in DOMAIN train_arrivals : bus_now[i] <= train_arrivals[j].now

\* A pass with two bus records computed from different samples and two train
\* records.
C5_Witness ==
    /\ entry = "main"
    /\ \E i, j \in WithEta : bus_now[i] # bus_now[j]
    /\ Len(train_arrivals) >= 2

\* C6 as claimed: a Ctrl+C that arrives while a pass is polling is honoured only
\* after the pass has completed: every configured source was printed.
C6_CancelOnlyAtBoundaries ==
    (entry = "main" /\ pc = "stopped" /\ cancelled_at \in Polling)
        => rendered = Configured

\* C6 as amended: a pending Ctrl+C is honoured wherever the loop is: the only
\* step the loop then takes is the one to stopped, which abandons the rest of
\* the pass; and nothing runs once the loop has stopped.
C6_CancelIsImmediate ==
    [][/\ sigint => /\ pc' = "stopped"
                    /\ UNCHANGED <<rendered, requests, bus_rows, train_rows>>
       /\ pc = "stopped" => pc' = "stopped"]_vars

\* Ctrl+C arrived during the train request of a pass whose bus section was
\* printed: the loop stopped without printing the train section.
C6_Witness ==
    /\ entry = "main"
    /\ pc = "stopped"
    /\ cancelled_at = "train_fetch"
    /\ rendered = {"bus"}

\* C7: in every pass of main at most max_buses bus rows and at most max_trains
\* train rows are printed, and no printed row has minutes_away None.
C7_ViewsCapped ==
    entry = "main" =>
        /\ Len(bus_rows) <= max_buses
        /\ Len(train_rows) <= max_trains
        /\ \A i \in DOMAIN bus_rows : bus_rows[i].minutes_away.t = "int"
        /\ \A i \in DOMAIN train_rows : train_rows[i].minutes_away \in Int

\* Both sources returned more records with an ETA than their cap, and exactly
\* the cap was printed.
C7_Witness ==
    /\ entry = "main"
    /\ Cardinality(WithEta) > max_buses
    /\ Len(bus_rows) = max_buses
    /\ Len(train_arrivals) > max_trains
    /\ Len(train_rows) = max_trains

\* A dict that lacks the key, or holds a dict lacking the next key.
Lacks(data, key) ==
    data.t = "dict" /\ key \notin DOMAIN data.v

\* The payload is an object without Siri, ServiceDelivery or
\* StopMonitoringDelivery.
MissingDelivery(data) ==
    \/ Lacks(data, "Siri")
    \/ data.t = "dict" /\ "Siri" \in DOMAIN data.v /\ Lacks(data.v.Siri, "ServiceDelivery")
    \/ /\ data.t = "dict" /\ "Siri" \in DOMAIN data.v
       /\ data.v.Siri.t = "dict" /\ "ServiceDelivery" \in DOMAIN data.v.Siri.v
       /\ Lacks(data.v.Siri.v.ServiceDelivery, "StopMonitoringDelivery")

\* C8 as claimed: a payload lacking the delivery structure yields an empty list
\* and exactly one reported parse error.
C8_MissingKeyReportsError ==
    ("bus" \in rendered /\ MissingDelivery(bus_data))
        => bus_arrivals = <<>> /\ reports.bus_parse = 1

\* C8 as amended: a payload lacking the delivery structure yields an empty
\* list, nothing printed, and no parse error is reported.
C8_MissingKeyIsSilent ==
    MissingDelivery(bus_data)
        => /\ "bus" \in rendered
           /\ bus_arrivals = <<>>
           /\ bus_rows = <<>>
           /\ reports.bus_parse = 0

\* A fetched payload with Siri but no ServiceDelivery was parsed.
C8_Witness ==
    /\ "bus" \in rendered
    /\ outcome.bus = "ok"
    /\ Lacks(bus_data, "Siri") = FALSE
    /\ MissingDelivery(bus_data)

\* What the loop holds for a source after its section.
ArrivalsOf(src) ==
    IF src = "bus" THEN <<bus_arrivals, bus_rows>> ELSE <<train_arrivals, train_rows>>

\* The sources the running loop polls.
Polled ==
    CASE entry = "main" /\ pc = "start" -> {}
      [] entry = "main" -> Configured
      [] entry = "bus_monitor" -> {"bus"}
      [] OTHER -> {"train"}

\* C9: a request that fails with a transport error does not raise past the
\* client: the section completes with an empty arrival list, one request was
\* made (no retry), the loop is not ended by it (only a monitor loop called
\* with a negative interval ends, in its sleep), and every pass that reaches
\* the sleep, the one after a failure included, has made exactly one request
\* per polled source.
C9_TransportErrorContained ==
    /\ \A src \in {"bus", "train"} :
          outcome[src] \in TransportErrors =>
              /\ src \in rendered
              /\ ArrivalsOf(src) = <<<<>>, <<>>>>
              /\ requests[src] = 1
              /\ pc = "crashed" => entry # "main" /\ refresh_interval < 0
    /\ pc \in Waiting => \A src \in Polled : requests[src] = 1

\* The bus request failed in the previous pass; this pass fetched again,
\* successfully, and reached the sleep.
C9_Witness ==
    /\ entry = "main"
    /\ pc = "waiting"
    /\ "bus" \in failed_before
    /\ outcome.bus = "ok"
    /\ requests.bus = 1

\* C10 as claimed: no loop of the program ever sleeps less than 5 seconds.
C10_EveryLoopSleepsAtLeastFive ==
    slept = 0 \/ slept >= 5

\* C10 as amended: main sleeps max(r, 5) seconds for an integer setting r and
\* 30 seconds without one; a monitor loop sleeps the refresh_interval it was
\* called with, whatever it is.
C10_MainSleepsAtLeastFive ==
    slept # 0 =>
        IF entry = "main"
        THEN IF environ.MTA_REFRESH_INTERVAL.t = "str"
                /\ environ.MTA_REFRESH_INTERVAL.form = "num"
             THEN /\ slept >= 5
                  /\ slept >= environ.MTA_REFRESH_INTERVAL.n
                  /\ slept \in {5, environ.MTA_REFRESH_INTERVAL.n}
             ELSE slept = 30
        ELSE slept = refresh_interval

\* main was configured with a refresh interval of 2 and slept 5 seconds.
C10_Witness ==
    /\ entry = "main"
    /\ environ.MTA_REFRESH_INTERVAL.t = "str"
    /\ environ.MTA_REFRESH_INTERVAL.form = "num"
    /\ environ.MTA_REFRESH_INTERVAL.n < 5
    /\ slept = 5

\* A setting that is present and not empty.
IsSet(v) ==
    v.t = "str" /\ (v.form = "text" => v.v # <<>>)

\* The sources the environment makes usable: a key and an id for each.
Usable ==
    {src \in {"bus", "train"} :
        IF src = "bus"
        THEN (IsSet(environ.MTA_BUS_API_KEY) \/ IsSet(environ.MTA_API_KEY))
             /\ IsSet(environ.MTA_STOP_ID)
        ELSE (IsSet(environ.MTA_TRAIN_API_KEY) \/ IsSet(environ.MTA_API_KEY))
             /\ IsSet(environ.MTA_TRAIN_STATION_ID)}

\* C11: main enters its loop exactly when a source is usable; with none it
\* returns after the configuration error, having made no request; and a
\* source that lacks its key or its id gets no tracker and no request in any
\* pass.
C11_LoopIffUsableSource ==
    (entry = "main" /\ pc # "start") =>
        /\ pc = "returned" <=> Usable = {}
        /\ Configured = Usable
        /\ \A src \in {"bus", "train"} : requests[src] > 0 => src \in Usable
        /\ pc = "returned" => requests = NoRequests /\ rendered = {}

\* Only the train source is usable (the bus has a key but an empty stop id):
\* the loop ran a pass that fetched the train feed and never the bus.
C11_Witness ==
    /\ entry = "main"
    /\ pc = "waiting"
    /\ Usable = {"train"}
    /\ IsSet(environ.MTA_BUS_API_KEY)
    /\ requests = [bus |-> 0, train |-> 1]

\* main returned after the configuration error although a key was set.
C11_WitnessNone ==
    entry = "main" /\ pc = "returned" /\ IsSet(environ.MTA_API_KEY)

\* The stop-time updates of the feed of a direct call, in feed order.
FeedUpdates ==
    Flatten([e \in 1..Len(feed) |-> feed[e].stop_time_update])

\* C12: the list get_train_arrivals returns is non-decreasing in the epoch
\* arrival_time of its records, whatever the order of the feed.
C12_SortedByEpoch ==
    \A i, j \in DOMAIN train_arrivals :
        i < j => train_arrivals[i].arrival_time <= train_arrivals[j].arrival_time

\* A call whose feed held two updates of the same minute, the later one first:
\* they were returned in the opposite order.
C12_Witness ==
    /\ entry = "train_call"
    /\ pc = "called"
    /\ Len(FeedUpdates) = 2
    /\ Len(train_arrivals) = 2
    /\ train_arrivals[1].update = FeedUpdates[2]
    /\ train_arrivals[2].update = FeedUpdates[1]
    /\ train_arrivals[1].minutes_away = train_arrivals[2].minutes_away
    /\ train_arrivals[1].arrival_time < train_arrivals[2].arrival_time

\* C13: a train record's direction is "Uptown" exactly when the stop id of
\* its update, as the feed gives it, ends in N, and "Downtown" otherwise; and
\* the update of a record of a direct call is one of the feed.
C13_UptownIffEndsInN ==
    /\ \A i \in DOMAIN train_arrivals :
          LET id == train_arrivals[i].update.stop_id
          IN train_arrivals[i].direction =
                IF id # <<>> /\ id[Len(id)] = "N" THEN "Uptown" ELSE "Downtown"
    /\ (entry = "train_call" /\ pc = "called") =>
          \A i \in DOMAIN train_arrivals :
              \E u \in DOMAIN FeedUpdates : train_arrivals[i].update = FeedUpdates[u]

\* A call returned an Uptown record for a stop id ending in N and Downtown
\* records for one ending in S that holds an N, and for one without a suffix.
C13_Witness ==
    /\ entry = "train_call"
    /\ pc = "called"
    /\ \E i, j \in DOMAIN train_arrivals :
          /\ train_arrivals[i].update.stop_id = <<"A", "N", "S">>
          /\ train_arrivals[i].direction = "Downtown"
          /\ train_arrivals[j].update.stop_id = <<"A", "S", "N">>
          /\ train_arrivals[j].direction = "Uptown"

\* A call returned a Downtown record for a stop id without a suffix.
C13_WitnessNoSuffix ==
    /\ entry = "train_call"
    /\ pc = "called"
    /\ \E i \in DOMAIN train_arrivals :
          /\ train_arrivals[i].update.stop_id = <<"A">>
          /\ train_arrivals[i].direction = "Downtown"

\* A stop id without its one trailing direction character, if it has one.
StripOne(id) ==
    IF id # <<>> /\ id[Len(id)] \in {"N", "S"} THEN SubSeq(id, 1, Len(id) - 1) ELSE id

\* C14: an update produces a record only if its stop id, with the single
\* trailing N or S removed, equals the requested station.
C14_SingleSuffixStripped ==
    \A i \in DOMAIN train_arrivals :
        StripOne(train_arrivals[i].update.stop_id) = train_station_id.v

\* The update belongs to the requested station: its stop id is the station
\* id, alone or followed by one direction character.
OfStation(u) ==
    u.stop_id \in {train_station_id.v, train_station_id.v \o <<"N">>,
                   train_station_id.v \o <<"S">>}

\* The block is present and carries a time (an unset time reads as 0).
TimePresent(has_block, time) ==
    has_block /\ time # 0

\* The time the update should be given: its arrival time, else its departure
\* time, else 0 for none.
TimeOf(u) ==
    IF TimePresent(u.has_arrival, u.arrival) THEN u.arrival
    ELSE IF TimePresent(u.has_departure, u.departure) THEN u.departure
    ELSE 0

\* C15: in a direct call, every record carries the arrival time of its update
\* when that is present and else its departure time; an update of the station
\* with neither time yields no record, and one with a time that is not in the
\* past yields a record.
C15_ArrivalElseDeparture ==
    (entry = "train_call" /\ pc = "called") =>
        /\ \A i \in DOMAIN train_arrivals :
              train_arrivals[i].arrival_time = TimeOf(train_arrivals[i].update)
        /\ \A u \in DOMAIN FeedUpdates :
              OfStation(FeedUpdates[u]) =>
                  IF TimeOf(FeedUpdates[u]) = 0
                  THEN \A i \in DOMAIN train_arrivals :
                          train_arrivals[i].update # FeedUpdates[u]
                  ELSE TimeOf(FeedUpdates[u]) >= clock =>
                          \E i \in DOMAIN train_arrivals :
                              train_arrivals[i].update = FeedUpdates[u]

\* The records of bus_arrivals that carry an ETA, in their order.
Filtered ==
    SelectSeq(bus_arrivals, LAMBDA a : a.minutes_away.t = "int")

\* C16: the bus rows main prints are the first max_buses records, in order,
\* of the normalized list without its records that have no ETA.
C16_FilterThenTruncate ==
    (entry = "main" /\ "bus" \in rendered) =>
        bus_rows = SubSeq(Filtered, 1, IF Len(Filtered) < max_buses
                                       THEN Len(Filtered) ELSE max_buses)

\* The list began with a record without ETA and held as many records with
\* one as the cap allows: all of those were printed.
C16_Witness ==
    /\ entry = "main"
    /\ "bus" \in rendered
    /\ Len(bus_arrivals) > max_buses
    /\ bus_arrivals[1].minutes_away.t = "none"
    /\ Len(Filtered) = max_buses
    /\ bus_rows = Filtered

\* The cap a setting stands for: its integer when that is at least 1, else 10.
CapOf(v) ==
    IF v.t = "str" /\ v.form = "num" /\ v.n >= 1 THEN v.n ELSE 10

\* C17: once main has read its settings, max_buses and max_trains are the
\* configured integer when that is at least 1 and 10 otherwise, hence at
\* least 1, and a printed section with records to show has at least one row.
C17_CapsAtLeastOne ==
    (entry = "main" /\ pc \notin {"start", "returned"}) =>
        /\ max_buses = CapOf(environ.MTA_MAX_BUSES)
        /\ max_trains = CapOf(environ.MTA_MAX_TRAINS)
        /\ max_buses >= 1
        /\ max_trains >= 1
        /\ ("bus" \in rendered /\ Filtered # <<>>) => bus_rows # <<>>
        /\ ("train" \in rendered /\ train_arrivals # <<>>) => train_rows # <<>>

\* MTA_MAX_TRAINS is 0 and MTA_MAX_BUSES is set: the default of 10 is used for
\* the trains and train rows were printed.
C17_Witness ==
    /\ entry = "main"
    /\ environ.MTA_MAX_TRAINS.t = "str"
    /\ environ.MTA_MAX_TRAINS.form = "num"
    /\ environ.MTA_MAX_TRAINS.n < 1
    /\ max_trains = 10
    /\ train_rows # <<>>

\* MTA_MAX_BUSES is negative: the default of 10 is used and bus rows were
\* printed.
C17_WitnessNegative ==
    /\ entry = "main"
    /\ environ.MTA_MAX_BUSES.t = "str"
    /\ environ.MTA_MAX_BUSES.form = "num"
    /\ environ.MTA_MAX_BUSES.n < 0
    /\ max_buses = 10
    /\ bus_rows # <<>>

====
